---------------------------- MODULE Spec2Model ----------------------------
(***************************************************************************)
(* A model of ram-utils (src/src/main.rs): the upper/lower case-conversion *)
(* command with its recursive directory walker, and the unique_ext         *)
(* extension tally.                                                        *)
(*                                                                         *)
(* A file name is a sequence of one-character strings, a path is a         *)
(* sequence of names relative to the current directory (<<>> is "."), and  *)
(* the filesystem is a function from the paths that exist to their kind.   *)
(* Directory listings are taken when read_dir is called; the order in      *)
(* which the entries of a listing are visited is left open.  Every         *)
(* filesystem call may fail.  Names are valid UTF-8, and the filesystem    *)
(* distinguishes letter case, as rename(2) on Linux does.                  *)
(***************************************************************************)
EXTENDS Integers, Sequences, FiniteSets, TLC

\* The largest number of entries below the current directory.
MaxNodes == 3

VARIABLES
    fs,       \* the filesystem: path -> "dir" | "file" | "symlink"
    fs0,      \* the filesystem the process started with
    args,     \* the parsed command line (clap's ArgMatches)
    pc,       \* where the command layer stands
    stack,    \* the call stack of the recursive function that is running
    ret,      \* how the last recursive call returned: "Ok", "Err", or "None" yet
    res,      \* the map the last find_unique_extensions call returned
    trace,    \* every filesystem call made so far, in order
    stdout,   \* the lines printed to the standard output
    stderr    \* the lines printed to the standard error

vars == <<fs, fs0, args, pc, stack, ret, res, trace, stdout, stderr>>

----------------------------------------------------------------------------
(* Names and letter case *)

Front(s) == SubSeq(s, 1, Len(s) - 1)

Last(s) == s[Len(s)]

IsPrefix(p, q) == Len(p) <= Len(q) /\ SubSeq(q, 1, Len(p)) = p

IsProperPrefix(p, q) == Len(p) < Len(q) /\ SubSeq(q, 1, Len(p)) = p

\* Option<T>: None is <<>>, Some(x) is <<x>>.
None == <<>>

Some(x) == <<x>>

unwrap_or(o, d) == IF o = None THEN d ELSE o[1]

\* LetterCase
LetterCase == {"UpperCase", "LowerCase"}

\* char::to_uppercase on the characters of the model's alphabet
UpperChar(c) ==
    CASE c = "a" -> "A"
      [] c = "b" -> "B"
      [] c = "c" -> "C"
      [] OTHER -> c

\* char::to_lowercase on the characters of the model's alphabet
LowerChar(c) ==
    CASE c = "A" -> "a"
      [] c = "B" -> "b"
      [] c = "C" -> "c"
      [] OTHER -> c

\* str::to_uppercase
to_uppercase(s) == [i \in 1..Len(s) |-> UpperChar(s[i])]

\* str::to_lowercase
to_lowercase(s) == [i \in 1..Len(s) |-> LowerChar(s[i])]

\* A conversion that leaves the extension as it is.
TargetFilenameStem(filename, c) ==
    LET dots == {i \in 1..Len(filename) : filename[i] = "."}
        stop == IF dots = {} THEN Len(filename) + 1
                ELSE CHOOSE i \in dots : \A j \in dots : i <= j
    IN  [i \in 1..Len(filename) |->
            IF i >= stop THEN filename[i]
            ELSE IF c = "UpperCase" THEN UpperChar(filename[i])
            ELSE LowerChar(filename[i])]

\* The match on the letter case in convert_file_or_dir.
TargetFilename(filename, c) ==
    IF c = "UpperCase" THEN to_uppercase(filename) ELSE to_lowercase(filename)

\* Path::file_name, then unwrap_or("") : "." has no file name.
file_name(path) == IF path = <<>> THEN <<>> ELSE Last(path)

\* Path::parent, then unwrap_or(".")
parent(path) == IF path = <<>> THEN <<>> ELSE Front(path)

\* Path::new("") : a path that names nothing.
EmptyPath == << <<>> >>

----------------------------------------------------------------------------
(* The filesystem *)

Kinds == {"dir", "file", "symlink"}

exists(f, path) == path \in DOMAIN f

is_dir(f, path) == path \in DOMAIN f /\ f[path] = "dir"

is_file(f, path) == path \in DOMAIN f /\ f[path] = "file"

\* What a path names: a kind, or nothing.
KindOf(f, path) == IF path \in DOMAIN f THEN f[path] ELSE "missing"

Children(f, path) ==
    {q \in DOMAIN f : Len(q) = Len(path) + 1 /\ IsPrefix(path, q)}

Below(f, path) == {q \in DOMAIN f : IsProperPrefix(path, q)}

\* fs::read_dir: the entries of a directory, each with its name and its type.
Listing(f, path) == {[name |-> Last(q), kind |-> f[q]] : q \in Children(f, path)}

\* fs::rename(src, dst) can succeed: rename(2).
RenameOk(f, src, dst) ==
    /\ src \in DOMAIN f
    /\ src # <<>>
    /\ is_dir(f, Front(dst))
    /\ \/ src = dst
       \/ dst \notin DOMAIN f
       \/ /\ dst \in DOMAIN f
          /\ IF f[src] = "dir"
                THEN f[dst] = "dir" /\ Children(f, dst) = {}
                ELSE f[dst] # "dir"

\* The filesystem after a successful fs::rename(src, dst): the subtree at src
\* moves to dst, replacing what dst named.
Renamed(f, src, dst) ==
    IF src = dst THEN f
    ELSE LET moved == {q \in DOMAIN f : IsPrefix(src, q)}
             rebase(q) == dst \o SubSeq(q, Len(src) + 1, Len(q))
             dom == ((DOMAIN f \ moved) \ {dst}) \cup {rebase(q) : q \in moved}
         IN  [q \in dom |->
                IF IsPrefix(dst, q)
                   THEN f[src \o SubSeq(q, Len(dst) + 1, Len(q))]
                   ELSE f[q]]

----------------------------------------------------------------------------
(* The command line *)

\* ArgMatches::value_of
value_of(m, name) == IF name \in m.present THEN Some(m.values[name]) ELSE None

\* ArgMatches::is_present
is_present(m, name) == name \in m.present

\* The letter case main hands to convert_case_command.
CaseOf(subcommand) == IF subcommand = "upper" THEN "UpperCase" ELSE "LowerCase"

case == CaseOf(args.subcommand)

ignore_files == is_present(args.sub_args, "ignore-files")

ignore_dirs == is_present(args.sub_args, "ignore-dirs")

----------------------------------------------------------------------------
(* The directory trees and command lines a run starts from *)

\* The names of the trees that are converted: two that convert to the same
\* name, and one with an extension.
Names == { <<"a">>, <<"A">>, <<"a", ".", "B">> }

\* The names of the trees that are tallied: without an extension (no dot, or
\* only a leading one) and with one, two of them with the same.
TallyNames == { <<"a">>, <<".", "b">>, <<"a", ".", "b">>, <<"c", ".", "b">>,
                <<"a", ".", "c">> }

\* HashMap::new()
EmptyMap == [e \in {} |-> 0]

EmptyFs == (<<>> :> "dir")

Dirs(f) == {p \in DOMAIN f : f[p] = "dir"}

NewPaths(f, names) == {p \o <<nm>> : p \in Dirs(f), nm \in names} \ DOMAIN f

Grow(f, names) == UNION {{f @@ (q :> k) : k \in Kinds} : q \in NewPaths(f, names)}

\* The trees of at most n entries whose names are among `names`.
RECURSIVE Trees(_, _)
Trees(names, n) ==
    IF n = 0 THEN {EmptyFs}
    ELSE LET S == Trees(names, n - 1) IN S \cup UNION {Grow(f, names) : f \in S}

\* The command lines clap accepts for upper and lower: the path is required,
\* --ignore-files and --ignore-dirs conflict.
ConvertFlags ==
    {F \in SUBSET {"recursive", "ignore-files", "ignore-dirs"} :
        ~({"ignore-files", "ignore-dirs"} \subseteq F)}

\* The paths a user names: ".", or an entry of the current directory.
UserPaths(names) == {<<>>} \cup {<<nm>> : nm \in names}

ConvertArgs ==
    {[subcommand |-> s,
      top_args   |-> [present |-> {}, values |-> [x \in {} |-> <<>>]],
      sub_args   |-> [present |-> F \cup {"path"}, values |-> [x \in {"path"} |-> p]]] :
        s \in {"upper", "lower"}, F \in ConvertFlags, p \in UserPaths(Names)}

----------------------------------------------------------------------------
(* convert_file_or_dir *)

\* The path convert_file_or_dir renames `path` to.
target_path(path, c) == parent(path) \o <<TargetFilename(file_name(path), c)>>

\* convert_file_or_dir(path, case): the filesystem call it makes, if any,
\* its result and the filesystem it leaves.  `fault` is an I/O failure of
\* fs::rename that the filesystem's contents do not explain.
convert_file_or_dir(f, path, c, fault, by) ==
    IF file_name(path) = <<>>
       THEN [ok |-> TRUE, fs |-> f, calls |-> <<>>, out |-> <<>>]
       ELSE LET dst  == target_path(path, c)
                good == ~fault /\ RenameOk(f, path, dst)
            IN  [ok    |-> good,
                 fs    |-> IF good THEN Renamed(f, path, dst) ELSE f,
                 calls |-> <<[op |-> "rename", src |-> path, dst |-> dst,
                              ok |-> good, by |-> by, fault |-> fault,
                              kind |-> KindOf(f, path)]>>,
                 out   |-> <<[src |-> path, dst |-> dst]>>]

----------------------------------------------------------------------------
(* convert_case_command *)

UserPath == unwrap_or(value_of(args.sub_args, "path"), EmptyPath)

\* The path does not exist.
CmdNotExist ==
    /\ pc = "convert_case_command"
    /\ ~exists(fs, UserPath)
    /\ stderr' = Append(stderr, "File/Directory does not exist")
    /\ pc' = "done"
    /\ UNCHANGED <<fs, fs0, args, stack, ret, trace, stdout, res>>

\* The path is a file: it is converted, and is no directory afterwards.
CmdFile ==
    /\ pc = "convert_case_command"
    /\ is_file(fs, UserPath)
    /\ \E fault \in BOOLEAN :
         LET r == convert_file_or_dir(fs, UserPath, case, fault, "command") IN
         /\ fs' = r.fs
         /\ trace' = trace \o r.calls
         /\ stdout' = stdout \o r.out
         /\ stderr' = IF r.ok THEN stderr ELSE Append(stderr, "Error")
    /\ pc' = "done"
    /\ UNCHANGED <<fs0, args, stack, ret, res>>

\* A command that walks the children whether or not -r is given.
CmdDirAlwaysWalks ==
    /\ pc = "convert_case_command"
    /\ is_dir(fs, UserPath)
    /\ stack' = <<[path |-> UserPath, phase |-> "read_dir",
                   entries |-> {}, cur |-> <<>>]>>
    /\ pc' = "convert_children"
    /\ UNCHANGED <<fs, fs0, args, ret, trace, stdout, stderr, res>>

\* The path is a directory: with -r its children are walked first.
CmdDir ==
    /\ pc = "convert_case_command"
    /\ is_dir(fs, UserPath)
    /\ IF is_present(args.sub_args, "recursive")
          THEN /\ stack' = <<[path |-> UserPath, phase |-> "read_dir",
                              entries |-> {}, cur |-> <<>>]>>
               /\ pc' = "convert_children"
          ELSE /\ stack' = stack
               /\ pc' = "convert_root"
    /\ UNCHANGED <<fs, fs0, args, ret, trace, stdout, stderr, res>>

\* convert_children has returned to the command: an error is printed.
CmdWalked ==
    /\ pc = "convert_children"
    /\ stack = <<>>
    /\ ret # "None"
    /\ stderr' = IF ret = "Err" THEN Append(stderr, "Error") ELSE stderr
    /\ pc' = "convert_root"
    /\ UNCHANGED <<fs, fs0, args, stack, ret, trace, stdout, res>>

\* A command that leaves the directory itself alone under --ignore-dirs.
CmdRootUnlessIgnoreDirs ==
    /\ pc = "convert_root"
    /\ \E fault \in BOOLEAN :
         LET r == IF ignore_dirs
                     THEN [ok |-> TRUE, fs |-> fs, calls |-> <<>>, out |-> <<>>]
                     ELSE convert_file_or_dir(fs, UserPath, case, fault, "command") IN
         /\ fs' = r.fs
         /\ trace' = trace \o r.calls
         /\ stdout' = stdout \o r.out
         /\ stderr' = IF r.ok THEN stderr ELSE Append(stderr, "Error")
    /\ pc' = "done"
    /\ UNCHANGED <<fs0, args, stack, ret, res>>

\* The directory itself is converted.
CmdRoot ==
    /\ pc = "convert_root"
    /\ \E fault \in BOOLEAN :
         LET r == convert_file_or_dir(fs, UserPath, case, fault, "command") IN
         /\ fs' = r.fs
         /\ trace' = trace \o r.calls
         /\ stdout' = stdout \o r.out
         /\ stderr' = IF r.ok THEN stderr ELSE Append(stderr, "Error")
    /\ pc' = "done"
    /\ UNCHANGED <<fs0, args, stack, ret, res>>

----------------------------------------------------------------------------
(* convert_children *)

Top == stack[Len(stack)]

Pop == Front(stack)

SetTop(frame) == [stack EXCEPT ![Len(stack)] = frame]

\* A call on the filesystem that changes nothing, as the trace records it.
Call(op, path, ok, fault) ==
    [op |-> op, src |-> path, dst |-> path, ok |-> ok, by |-> "walker",
     fault |-> fault, kind |-> KindOf(fs, path)]

\* let entries = fs::read_dir(path)?
WalkReadDir ==
    /\ pc = "convert_children"
    /\ stack # <<>>
    /\ Top.phase = "read_dir"
    /\ \E fault \in BOOLEAN :
         LET good == ~fault /\ is_dir(fs, Top.path) IN
         /\ trace' = Append(trace, Call("read_dir", Top.path, good, fault))
         /\ IF good
               THEN /\ stack' = SetTop([Top EXCEPT !.phase = "entries",
                                                   !.entries = Listing(fs, Top.path)])
                    /\ ret' = "None"
               ELSE /\ stack' = Pop
                    /\ ret' = "Err"
    /\ UNCHANGED <<fs, fs0, args, pc, stdout, stderr, res>>

\* if file_type.is_dir() && !ignore_dirs
WalksInto(kind) == kind = "dir" /\ ~ignore_dirs

\* A loop that converts files and symbolic links whatever --ignore-files says.
ConvertsEntryAlways(kind) == kind \in {"file", "symlink"}

\* if (file_type.is_file() || file_type.is_symlink()) && !ignore_files
ConvertsEntry(kind) == kind \in {"file", "symlink"} /\ ~ignore_files

\* A loop that converts a directory before it walks into it.
WalkDirEntryRenameFirst(name, path, rest) ==
    /\ \E fault \in BOOLEAN :
         LET r == convert_file_or_dir(fs, path, case, fault, "walker") IN
         /\ fs' = r.fs
         /\ trace' = trace \o r.calls
         /\ stdout' = stdout \o r.out
         /\ stack' = IF r.ok
                         THEN Append(SetTop([rest EXCEPT !.phase = "recursed", !.cur = name]),
                                     [path |-> path, phase |-> "read_dir",
                                      entries |-> {}, cur |-> <<>>])
                         ELSE Pop
         /\ ret' = IF r.ok THEN "None" ELSE "Err"

\* A directory entry that is walked into: convert_children(&entry.path(), ...)
\* is called, and the entry itself waits for its return.
WalkDirEntry(name, path, rest) ==
    /\ stack' = Append(SetTop([rest EXCEPT !.phase = "recursed", !.cur = name]),
                       [path |-> path, phase |-> "read_dir",
                        entries |-> {}, cur |-> <<>>])
    /\ ret' = "None"
    /\ UNCHANGED <<fs, trace, stdout>>

\* One round of the loop over the entries, up to the recursive call for a
\* directory, or through the conversion of a file or symbolic link.
WalkEntry ==
    /\ pc = "convert_children"
    /\ stack # <<>>
    /\ Top.phase = "entries"
    /\ \E e \in Top.entries :
         LET path == Top.path \o <<e.name>>
             rest == [Top EXCEPT !.entries = Top.entries \ {e}]
         IN
         \/ \* entry? or entry.file_type()? fails
            /\ \E op \in {"entry", "file_type"} :
                 trace' = Append(trace, Call(op, path, FALSE, TRUE))
            /\ stack' = Pop
            /\ ret' = "Err"
            /\ UNCHANGED <<fs, stdout>>
         \/ \* a directory that is not ignored
            /\ WalksInto(e.kind)
            /\ WalkDirEntry(e.name, path, rest)
         \/ \* a file or a symbolic link: convert_file_or_dir(&entry.path(), case)?
            /\ ~WalksInto(e.kind)
            /\ ConvertsEntry(e.kind)
            /\ \E fault \in BOOLEAN :
                 LET r == convert_file_or_dir(fs, path, case, fault, "walker") IN
                 /\ fs' = r.fs
                 /\ trace' = trace \o r.calls
                 /\ stdout' = stdout \o r.out
                 /\ stack' = IF r.ok THEN SetTop(rest) ELSE Pop
                 /\ ret' = IF r.ok THEN "None" ELSE "Err"
         \/ \* an entry that is passed over
            /\ ~WalksInto(e.kind)
            /\ ~ConvertsEntry(e.kind)
            /\ stack' = SetTop(rest)
            /\ ret' = "None"
            /\ UNCHANGED <<fs, trace, stdout>>
    /\ UNCHANGED <<fs0, args, pc, stderr, res>>

\* A loop that drops the error of the recursive call and goes on.
WalkRecursedDropsError ==
    /\ pc = "convert_children"
    /\ stack # <<>>
    /\ Top.phase = "recursed"
    /\ ret # "None"
    /\ \E fault \in BOOLEAN :
         LET r == convert_file_or_dir(fs, Top.path \o <<Top.cur>>, case,
                                      fault, "walker") IN
         /\ fs' = r.fs
         /\ trace' = trace \o r.calls
         /\ stdout' = stdout \o r.out
         /\ stack' = IF r.ok THEN SetTop([Top EXCEPT !.phase = "entries"]) ELSE Pop
         /\ ret' = IF r.ok THEN "None" ELSE "Err"
    /\ UNCHANGED <<fs0, args, pc, stderr, res>>

\* The recursive call returned: its error is returned, or the directory
\* itself is converted.
WalkRecursed ==
    /\ pc = "convert_children"
    /\ stack # <<>>
    /\ Top.phase = "recursed"
    /\ ret # "None"
    /\ IF ret = "Err"
          THEN /\ stack' = Pop
               /\ ret' = "Err"
               /\ UNCHANGED <<fs, trace, stdout>>
          ELSE \E fault \in BOOLEAN :
                 LET r == convert_file_or_dir(fs, Top.path \o <<Top.cur>>, case,
                                              fault, "walker") IN
                 /\ fs' = r.fs
                 /\ trace' = trace \o r.calls
                 /\ stdout' = stdout \o r.out
                 /\ stack' = IF r.ok THEN SetTop([Top EXCEPT !.phase = "entries"]) ELSE Pop
                 /\ ret' = IF r.ok THEN "None" ELSE "Err"
    /\ UNCHANGED <<fs0, args, pc, stderr, res>>

\* The loop is over: Ok(())
WalkReturn ==
    /\ pc = "convert_children"
    /\ stack # <<>>
    /\ Top.phase = "entries"
    /\ Top.entries = {}
    /\ stack' = Pop
    /\ ret' = "Ok"
    /\ UNCHANGED <<fs, fs0, args, pc, trace, stdout, stderr, res>>

----------------------------------------------------------------------------
(* The conversion commands *)

\* A process started as `upper <path> ...` or `lower <path> ...`: main has
\* parsed the command line and called convert_case_command.  The path given
\* is no symbolic link (exists, is_file and is_dir would follow it).
Init ==
    /\ fs \in Trees(Names, MaxNodes)
    /\ fs0 = fs
    /\ args \in ConvertArgs
    /\ LET p == args.sub_args.values["path"] IN p \in DOMAIN fs => fs[p] # "symlink"
    /\ pc = "convert_case_command"
    /\ stack = <<>>
    /\ ret = "None"
    /\ res = EmptyMap
    /\ trace = <<>>
    /\ stdout = <<>>
    /\ stderr = <<>>

Next ==
    \/ CmdNotExist
    \/ CmdFile
    \/ CmdDir
    \/ CmdWalked
    \/ CmdRoot
    \/ WalkReadDir
    \/ WalkEntry
    \/ WalkRecursed
    \/ WalkReturn

Spec == Init /\ [][Next]_vars

----------------------------------------------------------------------------
(* find_unique_extensions *)

\* Path::extension of an entry's path: what follows the last dot of the file
\* name, unless the name has no dot or only a leading one.
extension(name) ==
    LET dots == {i \in 1..Len(name) : name[i] = "."} IN
    IF dots = {} \/ name = <<".", ".">> THEN None
    ELSE LET k == CHOOSE i \in dots : \A j \in dots : j <= i IN
         IF k = 1 THEN None ELSE Some(SubSeq(name, k + 1, Len(name)))

\* *map.entry(ext).or_insert(0) += n
AddCount(map, ext, n) ==
    [e \in DOMAIN map \cup {ext} |->
        (IF e \in DOMAIN map THEN map[e] ELSE 0) + (IF e = ext THEN n ELSE 0)]

\* A merge that keeps the child directory's count for an extension.
MergeOverwrites(map, child) ==
    [e \in DOMAIN map \cup DOMAIN child |->
        IF e \in DOMAIN child THEN child[e] ELSE map[e]]

\* The loop over child_entries: every count of the child is added.
RECURSIVE Merge(_, _)
Merge(map, child) ==
    IF DOMAIN child = {} THEN map
    ELSE LET e == CHOOSE x \in DOMAIN child : TRUE IN
         Merge(AddCount(map, e, child[e]),
               [x \in DOMAIN child \ {e} |-> child[x]])

\* A file or a symbolic link is counted under its extension, if it has one.
Counted(map, name) ==
    IF extension(name) = None THEN map ELSE AddCount(map, extension(name)[1], 1)

\* let entries = fs::read_dir(path)?
TallyReadDir ==
    /\ pc = "find_unique_extensions"
    /\ stack # <<>>
    /\ Top.phase = "read_dir"
    /\ \E fault \in BOOLEAN :
         LET good == ~fault /\ is_dir(fs, Top.path) IN
         /\ trace' = Append(trace, Call("read_dir", Top.path, good, fault))
         /\ IF good
               THEN /\ stack' = SetTop([Top EXCEPT !.phase = "entries",
                                                   !.entries = Listing(fs, Top.path)])
                    /\ ret' = "None"
               ELSE /\ stack' = Pop
                    /\ ret' = "Err"
    /\ UNCHANGED <<fs, fs0, args, pc, res, stdout, stderr>>

\* One round of the loop over the entries, up to the recursive call for a
\* directory, or through the count of a file or symbolic link.
TallyEntry ==
    /\ pc = "find_unique_extensions"
    /\ stack # <<>>
    /\ Top.phase = "entries"
    /\ \E e \in Top.entries :
         LET path == Top.path \o <<e.name>>
             rest == [Top EXCEPT !.entries = Top.entries \ {e}]
         IN
         \/ \* entry? or entry.file_type()? fails
            /\ \E op \in {"entry", "file_type"} :
                 trace' = Append(trace, Call(op, path, FALSE, TRUE))
            /\ stack' = Pop
            /\ ret' = "Err"
         \/ \* a directory: find_unique_extensions(&entry.path())
            /\ e.kind = "dir"
            /\ stack' = Append(SetTop([rest EXCEPT !.phase = "recursed", !.cur = e.name]),
                               [path |-> path, phase |-> "read_dir", entries |-> {},
                                cur |-> <<>>, res |-> EmptyMap])
            /\ ret' = "None"
            /\ trace' = trace
         \/ \* a file or a symbolic link
            /\ e.kind \in {"file", "symlink"}
            /\ stack' = SetTop([rest EXCEPT !.res = Counted(Top.res, e.name)])
            /\ ret' = "None"
            /\ trace' = trace
    /\ UNCHANGED <<fs, fs0, args, pc, res, stdout, stderr>>

\* The recursive call returned: its error is returned, or its counts are
\* added to this directory's.
TallyRecursed ==
    /\ pc = "find_unique_extensions"
    /\ stack # <<>>
    /\ Top.phase = "recursed"
    /\ ret # "None"
    /\ IF ret = "Err"
          THEN /\ stack' = Pop
               /\ ret' = "Err"
          ELSE /\ stack' = SetTop([Top EXCEPT !.phase = "entries",
                                              !.res = Merge(Top.res, res)])
               /\ ret' = "None"
    /\ UNCHANGED <<fs, fs0, args, pc, res, trace, stdout, stderr>>

\* The loop is over: Ok(res)
TallyReturn ==
    /\ pc = "find_unique_extensions"
    /\ stack # <<>>
    /\ Top.phase = "entries"
    /\ Top.entries = {}
    /\ stack' = Pop
    /\ ret' = "Ok"
    /\ res' = Top.res
    /\ UNCHANGED <<fs, fs0, args, pc, trace, stdout, stderr>>

----------------------------------------------------------------------------
(* find_unique_extensions_command *)

\* The path main hands to find_unique_extensions_command: it asks the
\* matches of the whole command line, not those of the subcommand, for "path".
MainPath == unwrap_or(value_of(args.top_args, "path"), <<>>)

\* The bytes of the characters, for the order of strings.
Byte(c) ==
    CASE c = "." -> 46
      [] c = "A" -> 65
      [] c = "B" -> 66
      [] c = "C" -> 67
      [] c = "a" -> 97
      [] c = "b" -> 98
      [] c = "c" -> 99

\* The order of String: s comes before t.
StrLess(s, t) ==
    \/ IsProperPrefix(s, t)
    \/ \E i \in 1..Len(s) :
         /\ i <= Len(t)
         /\ SubSeq(s, 1, i - 1) = SubSeq(t, 1, i - 1)
         /\ Byte(s[i]) < Byte(t[i])

\* exts.sort()
RECURSIVE SortedKeys(_)
SortedKeys(S) ==
    IF S = {} THEN <<>>
    ELSE LET m == CHOOSE x \in S : \A y \in S \ {x} : StrLess(x, y)
         IN  <<m>> \o SortedKeys(S \ {m})

\* The lines "{ext} ({n} files)" of a map, in the order of its keys.
Lines(map) ==
    LET keys == SortedKeys(DOMAIN map) IN
    [i \in 1..Len(keys) |-> [ext |-> keys[i], files |-> map[keys[i]]]]

\* The path is checked and find_unique_extensions is called on it.
TallyCommand ==
    /\ pc = "find_unique_extensions_command"
    /\ IF ~exists(fs, MainPath) \/ ~is_dir(fs, MainPath)
          THEN /\ stderr' = Append(stderr,
                      "Directory does not exist or is not a valid directory path")
               /\ pc' = "done"
               /\ stack' = stack
          ELSE /\ stack' = <<[path |-> MainPath, phase |-> "read_dir", entries |-> {},
                              cur |-> <<>>, res |-> EmptyMap]>>
               /\ pc' = "find_unique_extensions"
               /\ stderr' = stderr
    /\ UNCHANGED <<fs, fs0, args, ret, res, trace, stdout>>

\* find_unique_extensions has returned to the command: the map is printed.
TallyPrinted ==
    /\ pc = "find_unique_extensions"
    /\ stack = <<>>
    /\ ret # "None"
    /\ IF ret = "Ok"
          THEN /\ stdout' = stdout \o Lines(res)
               /\ stderr' = stderr
          ELSE /\ stdout' = stdout
               /\ stderr' = Append(stderr, "Failed to find unique extensions")
    /\ pc' = "done"
    /\ UNCHANGED <<fs, fs0, args, stack, ret, res, trace>>

\* The command lines clap accepts for unique_ext: of ".", or of an entry of
\* the current directory that may be a directory, a file or missing.
TallyArgs ==
    {[subcommand |-> "unique_ext",
      top_args   |-> [present |-> {}, values |-> [x \in {} |-> <<>>]],
      sub_args   |-> [present |-> {"path"}, values |-> [x \in {"path"} |-> p]]] :
        p \in UserPaths({<<"a">>})}

\* A process started as `unique_ext <path>`: main has parsed the command
\* line and called find_unique_extensions_command.
TallyInit ==
    /\ fs \in Trees(TallyNames, MaxNodes)
    /\ fs0 = fs
    /\ args \in TallyArgs
    /\ pc = "find_unique_extensions_command"
    /\ stack = <<>>
    /\ ret = "None"
    /\ res = EmptyMap
    /\ trace = <<>>
    /\ stdout = <<>>
    /\ stderr = <<>>

TallyNext ==
    \/ TallyCommand
    \/ TallyReadDir
    \/ TallyEntry
    \/ TallyRecursed
    \/ TallyReturn
    \/ TallyPrinted

TallySpec == TallyInit /\ [][TallyNext]_vars

----------------------------------------------------------------------------
(* What the claims speak of *)

Root == UserPath

Recursive == is_present(args.sub_args, "recursive")

\* convert_children(root, ...) has just returned to the command.
WalkerReturned == pc = "convert_children" /\ stack = <<>> /\ ret # "None"

\* No filesystem call failed for a reason outside the tree's contents.
NoFault == \A i \in 1..Len(trace) : ~trace[i].fault

\* A call of the walker failed.
WalkFailed == \E i \in 1..Len(trace) : trace[i].by = "walker" /\ ~trace[i].ok

\* A name with every character in the letter case asked for.
Folded(name) ==
    [i \in 1..Len(name) |->
        IF args.subcommand = "upper" THEN UpperChar(name[i]) ELSE LowerChar(name[i])]

\* Two siblings below root have the same name once converted.
Collide(f, root) ==
    \E p, q \in Below(f, root) :
        /\ p # q
        /\ Front(p) = Front(q)
        /\ Folded(Last(p)) = Folded(Last(q))

Changes(name) == Folded(name) # name

\* Where the entry at q of the tree f0 is once the walk of root has
\* converted "all" names below root, those of the "dirs" or those of the
\* "files" (regular files and symbolic links).
ConvertedPath(f0, q, root, which) ==
    IF ~IsProperPrefix(root, q) THEN q
    ELSE [i \in 1..Len(q) |->
            IF /\ i > Len(root)
               /\ \/ which = "all"
                  \/ which = "dirs" /\ f0[SubSeq(q, 1, i)] = "dir"
                  \/ which = "files" /\ f0[SubSeq(q, 1, i)] # "dir"
               THEN Folded(q[i])
               ELSE q[i]]

\* f is f0 with those names converted, and otherwise the same tree.
IsConverted(f, f0, root, which) ==
    /\ DOMAIN f = {ConvertedPath(f0, q, root, which) : q \in DOMAIN f0}
    /\ Cardinality(DOMAIN f) = Cardinality(DOMAIN f0)
    /\ \A q \in DOMAIN f0 : f[ConvertedPath(f0, q, root, which)] = f0[q]

\* The tree f after the renames of the trace t that succeeded.
RECURSIVE Replay(_, _)
Replay(f, t) ==
    IF t = <<>> THEN f
    ELSE Replay(IF Head(t).op = "rename" /\ Head(t).ok
                   THEN Renamed(f, Head(t).src, Head(t).dst)
                   ELSE f,
                Tail(t))

\* Where the root directory is now.
RootNow ==
    IF trace # <<>> /\ Last(trace).by = "command" /\ Last(trace).ok
       THEN Last(trace).dst
       ELSE Root

----------------------------------------------------------------------------
(* The claims *)

\* C1: when no two siblings below root convert to the same name and no
\* filesystem call fails, convert_children(root, case, false, false) returns
\* Ok, and every entry below root, at every depth, then bears its converted
\* name (extension included) in an otherwise unchanged tree.
C1_ConvertsWholeTree ==
    (WalkerReturned /\ ~ignore_files /\ ~ignore_dirs /\ NoFault /\ ~Collide(fs0, Root))
        => (ret = "Ok" /\ IsConverted(fs, fs0, Root, "all"))

\* C1's case: a file three levels below root, every name on its path changed.
C1_Witness ==
    /\ WalkerReturned /\ ~ignore_files /\ ~ignore_dirs /\ NoFault /\ ~Collide(fs0, Root)
    /\ ret = "Ok"
    /\ \E q \in DOMAIN fs0 :
         /\ Len(q) = Len(Root) + 3
         /\ fs0[q] = "file"
         /\ \A i \in 1..Len(q) : i > Len(Root) => Changes(q[i])
         /\ Len(Last(q)) = 3

\* C2: with --ignore-files the walker never renames a file or a symbolic
\* link, and (no collision, no failure) it returns Ok with the name of every
\* directory below root converted and every other name as it was.
C2_IgnoreFiles ==
    /\ ignore_files =>
          \A i \in 1..Len(trace) :
              (trace[i].op = "rename" /\ trace[i].by = "walker") => trace[i].kind = "dir"
    /\ (WalkerReturned /\ ignore_files /\ NoFault /\ ~Collide(fs0, Root))
          => (ret = "Ok" /\ IsConverted(fs, fs0, Root, "dirs"))

\* C2's case: a directory at depth two was renamed; a file and a symbolic
\* link whose names would change are below root, one of them nested.
C2_Witness ==
    /\ WalkerReturned /\ ignore_files /\ NoFault /\ ~Collide(fs0, Root) /\ ret = "Ok"
    /\ \E i \in 1..Len(trace) :
         /\ trace[i].op = "rename" /\ trace[i].ok /\ trace[i].src # trace[i].dst
         /\ Len(trace[i].src) = Len(Root) + 2
    /\ \E q \in Below(fs0, Root) :
         fs0[q] # "dir" /\ Changes(Last(q)) /\ Len(q) >= Len(Root) + 2

\* C3: with --ignore-dirs the walk still descends: afterwards every file and
\* symbolic link below root, at every depth, bears its converted name and
\* every directory its original one.
C3_IgnoreDirsStillDescends ==
    (WalkerReturned /\ ignore_dirs /\ NoFault /\ ~Collide(fs0, Root))
        => (ret = "Ok" /\ IsConverted(fs, fs0, Root, "files"))

\* C6: once the walk of the children has reported an error, the error is
\* logged and the command renames nothing more, the root directory included.
C6_StopsAfterWalkError ==
    /\ (WalkFailed /\ pc \in {"convert_root", "done"}) => stderr # <<>>
    /\ \A i, j \in 1..Len(trace) :
          (i < j /\ trace[i].by = "walker" /\ ~trace[i].ok) => trace[j].op # "rename"

\* C7: for an existing directory root with a non-empty final component the
\* command ends by attempting the rename of root to its converted name,
\* after the walk if there was one, whatever the flags are.
C7_RootAlwaysConverted ==
    (pc = "done" /\ is_dir(fs0, Root) /\ file_name(Root) # <<>>)
        => /\ trace # <<>>
           /\ Last(trace).op = "rename"
           /\ Last(trace).by = "command"
           /\ Last(trace).src = Root
           /\ Last(trace).dst = Front(Root) \o <<Folded(Last(Root))>>
           /\ \A i \in 1..(Len(trace) - 1) : trace[i].by = "walker"
           /\ Recursive => (Len(trace) >= 2 /\ trace[1].op = "read_dir" /\ trace[1].src = Root)

\* C7's case: -r --ignore-dirs on a directory whose name changes.
C7_Witness ==
    /\ pc = "done" /\ is_dir(fs0, Root) /\ file_name(Root) # <<>>
    /\ Recursive /\ ignore_dirs
    /\ Last(trace).ok /\ Last(trace).src # Last(trace).dst
    /\ Root \notin DOMAIN fs

\* The renames inside a directory's subtree come before the rename of the
\* directory: no rename is issued below a directory that was renamed.
ChildrenBeforeParent ==
    \A i, j \in 1..Len(trace) :
        (i < j /\ trace[i].op = "rename" /\ trace[i].ok /\ trace[j].op = "rename")
            => /\ ~IsProperPrefix(trace[i].src, trace[j].src)
               /\ ~IsProperPrefix(trace[i].dst, trace[j].src)

\* No call names a path through a directory that was renamed away.
NoStalePath ==
    \A i, j \in 1..Len(trace) :
        (i < j /\ trace[i].op = "rename" /\ trace[i].ok /\ trace[i].src # trace[i].dst)
            => ~IsPrefix(trace[i].src, trace[j].src)

\* C8 as stated: in every recursive conversion, every rename inside the
\* subtree of a renamed directory D comes before the rename of D, and no
\* rename has a source path with a stale component.
C8_AsStated == ChildrenBeforeParent /\ NoStalePath

\* C8, amended: no call ever names a path with a stale component, and when
\* no two siblings below root convert to the same name every rename inside
\* the subtree of a renamed directory comes before that directory's rename.
C8_ChildrenFirst ==
    /\ NoStalePath
    /\ \A i \in 1..Len(trace) : trace[i].fault \/ trace[i].kind # "missing"
    /\ ~Collide(fs0, Root) => ChildrenBeforeParent

\* C8's case: a directory was renamed after an entry two levels inside it.
C8_Witness ==
    /\ ~Collide(fs0, Root)
    /\ \E i, j \in 1..Len(trace) :
         /\ i < j
         /\ trace[i].op = "rename" /\ trace[i].ok /\ trace[i].src # trace[i].dst
         /\ trace[j].op = "rename" /\ trace[j].ok /\ trace[j].src # trace[j].dst
         /\ IsProperPrefix(trace[j].src, trace[i].src)
         /\ Len(trace[i].src) = Len(trace[j].src) + 2

\* C9 as stated: without -r the direct files and symbolic links of root are
\* converted (unless --ignore-files), and nothing nested is.
C9_AsStated ==
    (pc = "done" /\ ~Recursive /\ is_dir(fs0, Root) /\ ~ignore_files /\ NoFault)
        => \A q \in Children(fs0, Root) :
              fs0[q] # "dir" => (RootNow \o <<Folded(Last(q))>>) \in DOMAIN fs

\* C9, amended: without -r the command does not walk root: nothing below
\* root is listed or renamed, and only root's own name is converted.
C9_NonRecursiveLeavesChildren ==
    (pc = "done" /\ ~Recursive /\ is_dir(fs0, Root))
        => /\ \A i \in 1..Len(trace) : trace[i].by = "command" /\ trace[i].src = Root
           /\ \A q \in Below(fs0, Root) :
                LET now == RootNow \o SubSeq(q, Len(Root) + 1, Len(q))
                IN  now \in DOMAIN fs /\ fs[now] = fs0[q]
           /\ Cardinality(Below(fs, RootNow)) = Cardinality(Below(fs0, Root))

\* C9's case: root was renamed over a direct file whose name would change.
C9_Witness ==
    /\ pc = "done" /\ ~Recursive /\ is_dir(fs0, Root) /\ ~ignore_files
    /\ trace # <<>> /\ Last(trace).ok /\ Last(trace).src # Last(trace).dst
    /\ \E q \in Children(fs0, Root) : fs0[q] = "file" /\ Changes(Last(q))

\* C10: after a filesystem call of the walker fails the walker makes no
\* further call, every level of the recursion returns the error, and the
\* renames done before the failure stay as they are.
C10_ErrorStopsWalk ==
    /\ \A i, j \in 1..Len(trace) :
          (i < j /\ trace[i].by = "walker" /\ ~trace[i].ok) => trace[j].by = "command"
    /\ (WalkFailed /\ pc = "convert_children") => (ret = "Err" /\ fs = Replay(fs0, trace))
    /\ (pc = "convert_children" /\ ret = "Err") => WalkFailed

\* C10's case: a call two levels below root failed after a rename that
\* changed a name, and the error has reached the command.
C10_Witness ==
    /\ WalkerReturned /\ ret = "Err"
    /\ \E i, j \in 1..Len(trace) :
         /\ i < j
         /\ trace[i].op = "rename" /\ trace[i].ok /\ trace[i].src # trace[i].dst
         /\ ~trace[j].ok /\ Len(trace[j].src) >= Len(Root) + 2
    /\ fs # fs0

----------------------------------------------------------------------------
(* The claims about unique_ext *)

\* The path the user gave to the subcommand.
GivenPath == args.sub_args.values["path"]

\* The files and symbolic links below root that have an extension.
WithExtension(f, root) ==
    {q \in Below(f, root) : f[q] \in {"file", "symlink"} /\ extension(Last(q)) # None}

\* For every extension below root, the number of files and symbolic links
\* below root that have it.
Census(f, root) ==
    [e \in {extension(Last(q))[1] : q \in WithExtension(f, root)} |->
        Cardinality({q \in WithExtension(f, root) : extension(Last(q)) = Some(e)})]

\* The directory whose find_unique_extensions call has just returned.
ReturnedFrom == IF stack = <<>> THEN MainPath ELSE Top.path \o <<Top.cur>>

TallyReturned == pc = "find_unique_extensions" /\ ret # "None"

\* C4: in whatever order the entries are visited, find_unique_extensions(root)
\* without I/O failure returns the map that has, for exactly the extensions
\* of the files and symbolic links anywhere below root, the number of those
\* files; directories and files without an extension add nothing.
C4_TallyIsCensus ==
    /\ (TallyReturned /\ ret = "Ok") => res = Census(fs, ReturnedFrom)
    /\ (TallyReturned /\ NoFault) => ret = "Ok"

\* C4's case: the call on the whole tree returned a count of two for an
\* extension that two files in different directories have, and that the
\* name of a directory has too.
C4_Witness ==
    /\ TallyReturned /\ ret = "Ok" /\ stack = <<>>
    /\ \E e \in DOMAIN res :
         /\ res[e] = 2
         /\ \E p, q \in WithExtension(fs, <<>>) :
              /\ Len(p) < Len(q)
              /\ extension(Last(p)) = Some(e) /\ extension(Last(q)) = Some(e)
              /\ extension(Last(Front(q))) = Some(e)

\* C5: the directory that is tallied, and whose extensions are printed, is
\* the path the user gave to unique_ext.
C5_TalliesGivenPath ==
    /\ \A i \in 1..Len(trace) : IsPrefix(GivenPath, trace[i].src)
    /\ (pc = "done" /\ is_dir(fs, GivenPath) /\ NoFault)
          => stdout = Lines(Census(fs, GivenPath))
    /\ (pc = "done" /\ ~is_dir(fs, GivenPath)) => stdout = <<>>

=============================================================================
